---- MODULE Spec2Model ----
(***************************************************************************)
(* Model of src/handler.py: the RunPod serverless handler of Chatterbox    *)
(* TTS.  One invocation of handler(job) is a small sequential process; its *)
(* steps are the places where it touches the filesystem, the network, the  *)
(* synthesis model or the object store.  Strings are sequences of          *)
(* one-character strings, so that strip, lower, startswith, os.path.join   *)
(* and the f-strings that build the file names are computed, not assumed.  *)
(***************************************************************************)
EXTENDS Integers, Sequences, FiniteSets, TLC

VARIABLES
    MODEL,             \* TRUE iff the module-level MODEL is not None
    r2_client,         \* TRUE iff the module-level r2_client is not None
    job,               \* job[j]: the job mapping handed to handler
    pc,                \* pc[j]: position of invocation j inside handler
    job_id,            \* handler locals, one per invocation
    output_format,
    return_base64,
    temp_audio_file,
    audio_prompt_path,
    wav,
    output_path,
    result,
    outcome,           \* "running", "returned" or "raised"
    returned,          \* the value handler returns (NoValue until then)
    fs,                \* the paths that exist on the shared filesystem
    touched,           \* touched[j]: paths invocation j created, read or deleted
    trace              \* trace[j]: the external calls invocation j made, in order

vars == <<MODEL, r2_client, job, pc, job_id, output_format, return_base64,
          temp_audio_file, audio_prompt_path, wav, output_path, result,
          outcome, returned, fs, touched, trace>>

Jobs == {1, 2}

-----------------------------------------------------------------------------
(* Bounds of the model *)

\* longest run of whitespace put around an input string
MaxPad == 1

-----------------------------------------------------------------------------
(* Python values *)

\* None, as a value comparable with strings (no string holds the element "None")
None == <<"None">>

\* the value of `returned` while handler has not returned
NoValue == [k \in {} |-> 0]

Chr_http  == <<"h","t","t","p",":","/","/">>
Chr_https == <<"h","t","t","p","s",":","/","/">>
Chr_wav   == <<"w","a","v">>
Chr_mp3   == <<"m","p","3">>

INPUT_DIR  == <<"/","a","p","p","/","i","n","p","u","t">>
OUTPUT_DIR == <<"/","a","p","p","/","o","u","t","p","u","t">>
CDN_URL    == <<"c","d","n">>

SAMPLE_RATE == 24000

Whitespace == {" ", "\t", "\n", "\r"}

UpperCase == <<"A","B","C","D","E","F","G","H","I","J","K","L","M",
               "N","O","P","Q","R","S","T","U","V","W","X","Y","Z">>
LowerCase == <<"a","b","c","d","e","f","g","h","i","j","k","l","m",
               "n","o","p","q","r","s","t","u","v","w","x","y","z">>
Digits    == <<"0","1","2","3","4","5","6","7","8","9">>

Range(s) == {s[i] : i \in DOMAIN s}

\* str.startswith(prefix)
startswith(s, prefix) ==
    /\ Len(s) >= Len(prefix)
    /\ SubSeq(s, 1, Len(prefix)) = prefix

\* a faulty variant: the https:// prefix is forgotten
startswith_http_only(s) == startswith(s, Chr_http)

\* str.startswith(("http://", "https://"))
startswith_url(s) == startswith(s, Chr_http) \/ startswith(s, Chr_https)

\* str.strip(): drops the leading and the trailing whitespace
RECURSIVE lstrip(_)
lstrip(s) == IF s # <<>> /\ Head(s) \in Whitespace THEN lstrip(Tail(s)) ELSE s

RECURSIVE rstrip(_)
rstrip(s) ==
    IF s # <<>> /\ s[Len(s)] \in Whitespace
    THEN rstrip(SubSeq(s, 1, Len(s) - 1))
    ELSE s

\* a faulty variant: the value is used as supplied
strip_nothing(s) == s

strip(s) == rstrip(lstrip(s))

\* str.lower() on the ASCII letters
lower_char(c) ==
    IF \E i \in DOMAIN UpperCase : UpperCase[i] = c
    THEN LowerCase[CHOOSE i \in DOMAIN UpperCase : UpperCase[i] = c]
    ELSE c

lower(s) == [i \in DOMAIN s |-> lower_char(s[i])]

\* os.path.join(a, b) of posixpath, for two components
path_join(a, b) ==
    IF b # <<>> /\ Head(b) = "/" THEN b
    ELSE IF a = <<>> \/ a[Len(a)] = "/" THEN a \o b
    ELSE a \o <<"/">> \o b

\* base64.b64decode(s) with validate=False: binascii.a2b_base64 skips the
\* characters outside the alphabet, stops at a complete pad sequence, and
\* raises unless the data characters fill whole quads.  TRUE iff it returns.
B64Alphabet == Range(UpperCase) \cup Range(LowerCase) \cup Range(Digits) \cup {"+", "/"}

RECURSIVE a2b_base64(_, _, _, _)
a2b_base64(s, i, quad_pos, pads) ==
    IF i > Len(s) THEN quad_pos = 0
    ELSE IF s[i] = "=" THEN
        IF quad_pos >= 2 /\ quad_pos + pads + 1 >= 4 THEN TRUE
        ELSE a2b_base64(s, i + 1, quad_pos,
                        IF quad_pos >= 2 THEN pads + 1 ELSE pads)
    ELSE IF s[i] \notin B64Alphabet THEN a2b_base64(s, i + 1, quad_pos, pads)
    ELSE a2b_base64(s, i + 1, (quad_pos + 1) % 4, 0)

b64decode_ok(s) == a2b_base64(s, 1, 0, 0)

\* float(x) for a string x: the decimal literals (digits with at most one
\* point, an optional sign, surrounding whitespace ignored)
float_ok(s) ==
    LET t == strip(s)
        u == IF t # <<>> /\ Head(t) \in {"+", "-"} THEN Tail(t) ELSE t
    IN  /\ \E i \in DOMAIN u : u[i] \in Range(Digits)
        /\ \A i \in DOMAIN u : u[i] \in Range(Digits) \cup {"."}
        /\ Cardinality({i \in DOMAIN u : u[i] = "."}) <= 1

-----------------------------------------------------------------------------
(* The job mapping.  A field of job["input"] is absent, a string, a JSON   *)
(* number, or another non-string value such as null.                       *)

Absent == [kind |-> "absent", val |-> <<>>]
Null   == [kind |-> "null", val |-> <<>>]
Number == [kind |-> "number", val |-> <<>>]
Str(s) == [kind |-> "str", val |-> s]

\* dict.get(key, default)
get(field, default) == IF field.kind = "absent" THEN default ELSE field

Pad(n) == [i \in 1..n |-> " "]

Padded(core) == {Pad(a) \o core \o Pad(b) : a \in 0..MaxPad, b \in 0..MaxPad}

LeftPadded(core) == {Pad(a) \o core : a \in 0..MaxPad}

Texts ==
    {Absent, Null} \cup {Str(s) : s \in Padded(<<>>) \cup Padded(<<"h","i">>)}

PromptCores ==
    { Chr_http \o <<"a">>,                   \* a URL
      Chr_https \o <<"a">>,                  \* a URL
      <<"H","T","T","P",":","/","/","a">>,   \* no URL: the test is case-sensitive
      <<"Q","U","J","D">>,                   \* base64 of "ABC"
      <<"Q","Q">>,                           \* base64 with its padding missing
      <<>> }

Prompts ==
    {Absent, Null} \cup {Str(s) : s \in UNION {LeftPadded(c) : c \in PromptCores}}

\* <<exaggeration, cfg_weight>>
Tunings ==
    { <<Absent, Absent>>,
      <<Number, Str(<<"0",".","3">>)>>,
      <<Str(<<"a","b","c">>), Absent>>,
      <<Absent, Null>> }

Formats ==
    { Absent, Null, Str(Chr_wav), Str(Chr_mp3), Str(<<"M","P","3">>),
      Str(<<"o","g","g">>) }

Ids == {Absent, Str(<<"x">>), Str(<<"x","_","t","e","m","p">>)}

JobOf(id, text, prompt, tuning, format, rb) ==
    [ id            |-> id,
      text          |-> text,
      audio_prompt  |-> prompt,
      exaggeration  |-> tuning[1],
      cfg_weight    |-> tuning[2],
      output_format |-> format,
      return_base64 |-> rb ]

\* a job slot the runtime has dispatched nothing to
NoJob == JobOf(Absent, Absent, Absent, <<Absent, Absent>>, Absent, FALSE)

\* str(uuid.uuid4()): a fresh identifier for each invocation
uuid4(j) == <<"u", "u", "i", "d", Digits[j + 1]>>

\* float(x)
float(field) ==
    CASE field.kind = "number" -> TRUE
      [] field.kind = "str"    -> float_ok(field.val)
      [] OTHER                 -> FALSE

\* a faulty variant: lines 180-181, the fallback, are missing
normalize_format_no_fallback(field) == lower(field.val)

\* lines 177-181: lower-case, then fall back to "wav"
normalize_format(field) ==
    LET f == lower(field.val)
    IN  IF f \in {Chr_wav, Chr_mp3} THEN f ELSE Chr_wav

\* the three job-scoped files
prompt_file(id) == path_join(INPUT_DIR, id \o <<"_","p","r","o","m","p","t",".","w","a","v">>)
output_file(id, fmt) == path_join(OUTPUT_DIR, id \o <<".">> \o fmt)
temp_wav_file(id) == path_join(OUTPUT_DIR, id \o <<"_","t","e","m","p",".","w","a","v">>)

\* the public URL upload_to_r2 returns
public_url(id, ext) == CDN_URL \o <<"/">> \o <<"t","t","s","/">> \o id \o <<".">> \o ext

Error(msg) == [error |-> msg]

Ev(op, ok) == [op |-> op, ok |-> ok]

-----------------------------------------------------------------------------
(* The state machine *)

config == <<MODEL, r2_client, job>>
locals == <<job_id, output_format, return_base64, temp_audio_file,
            audio_prompt_path, wav, output_path, result>>
world  == <<fs, touched, trace>>

Set(f, j, v) == [f EXCEPT ![j] = v]

Log(j, op, ok) == trace' = Set(trace, j, Append(trace[j], Ev(op, ok)))

Touch(j, paths) == touched' = Set(touched, j, touched[j] \cup paths)

\* `return value` inside the try block: the finally block still has to run
Return(j, value) ==
    /\ returned' = Set(returned, j, value)
    /\ outcome' = Set(outcome, j, "returned")
    /\ pc' = Set(pc, j, "finally")

\* an exception no except clause of the try block catches
Raise(j) ==
    /\ outcome' = Set(outcome, j, "raised")
    /\ pc' = Set(pc, j, "finally")
    /\ UNCHANGED returned

\* `return value` before the try block is entered
ReturnEarly(j, value) ==
    /\ returned' = Set(returned, j, value)
    /\ outcome' = Set(outcome, j, "returned")
    /\ pc' = Set(pc, j, "done")

\* an exception raised before the try block is entered
RaiseEarly(j) ==
    /\ outcome' = Set(outcome, j, "raised")
    /\ pc' = Set(pc, j, "done")
    /\ UNCHANGED returned

Goto(j, label) ==
    /\ pc' = Set(pc, j, label)
    /\ UNCHANGED <<outcome, returned>>

InitCommon ==
    /\ MODEL \in BOOLEAN
    /\ r2_client \in BOOLEAN
    /\ job_id = [j \in Jobs |-> None]
    /\ output_format = [j \in Jobs |-> None]
    /\ return_base64 = [j \in Jobs |-> FALSE]
    /\ temp_audio_file = [j \in Jobs |-> None]
    /\ audio_prompt_path = [j \in Jobs |-> None]
    /\ wav = [j \in Jobs |-> 0]
    /\ output_path = [j \in Jobs |-> None]
    /\ result = [j \in Jobs |-> NoValue]
    /\ outcome = [j \in Jobs |-> "running"]
    /\ returned = [j \in Jobs |-> NoValue]
    /\ fs = {}
    /\ touched = [j \in Jobs |-> {}]
    /\ trace = [j \in Jobs |-> <<>>]

\* one job, any input
Init ==
    /\ InitCommon
    /\ \E id \in {Absent, Str(<<"x">>)}, text \in Texts, prompt \in Prompts,
          tuning \in Tunings, format \in Formats, rb \in BOOLEAN :
          job = [j \in Jobs |-> IF j = 1
                                THEN JobOf(id, text, prompt, tuning, format, rb)
                                ELSE NoJob]
    /\ pc = [j \in Jobs |-> IF j = 1 THEN "start" ELSE "idle"]

\* lines 158-191: the job identifier, the model check, the parameters
Extract(j) ==
    /\ pc[j] = "start"
    /\ job_id' = Set(job_id, j, IF job[j].id.kind = "absent" THEN uuid4(j)
                                ELSE job[j].id.val)
    /\ LET text == get(job[j].text, Str(<<>>))
           exaggeration == get(job[j].exaggeration, Number)
           cfg_weight == get(job[j].cfg_weight, Number)
           format == get(job[j].output_format, Str(Chr_wav))
       IN  IF ~MODEL THEN
               /\ ReturnEarly(j, Error("Model failed to load at startup"))
               /\ UNCHANGED <<output_format, return_base64>>
           ELSE IF text.kind # "str" THEN
               /\ RaiseEarly(j)
               /\ UNCHANGED <<output_format, return_base64>>
           ELSE IF strip(text.val) = <<>> THEN
               /\ ReturnEarly(j, Error("Missing required parameter: text"))
               /\ UNCHANGED <<output_format, return_base64>>
           ELSE IF ~float(exaggeration) \/ ~float(cfg_weight) \/ format.kind # "str" THEN
               /\ RaiseEarly(j)
               /\ UNCHANGED <<output_format, return_base64>>
           ELSE
               /\ output_format' = Set(output_format, j, normalize_format(format))
               /\ return_base64' = Set(return_base64, j, job[j].return_base64)
               /\ Goto(j, "resolve")
    /\ UNCHANGED <<config, temp_audio_file, audio_prompt_path, wav, output_path,
                   result, world>>

\* line 194: no "audio_prompt" key
ResolveAbsent(j) ==
    /\ pc[j] = "resolve"
    /\ job[j].audio_prompt.kind = "absent"
    /\ Goto(j, "generate")
    /\ UNCHANGED <<config, locals, world>>

\* line 195: .strip() of a value that is no string
ResolveNonString(j) ==
    /\ pc[j] = "resolve"
    /\ job[j].audio_prompt.kind \in {"null", "number"}
    /\ Raise(j)
    /\ UNCHANGED <<config, locals, world>>

\* lines 125-136: what download_audio(url, save_path) can do
download_audio(url) ==
    IF ~startswith_url(url) THEN {"invalid_url"}
    ELSE {"fetch_failed", "open_failed", "write_failed", "ok"}

\* lines 212-213: what writing the decoded bytes can do
write_file == {"open_failed", "write_failed", "ok"}

\* lines 198-206: the value is a URL
ResolveURL(j) ==
    /\ pc[j] = "resolve"
    /\ job[j].audio_prompt.kind = "str"
    /\ LET audio_prompt_value == strip(job[j].audio_prompt.val)
           path == prompt_file(job_id[j])
       IN  /\ startswith_url(audio_prompt_value)
           /\ temp_audio_file' = Set(temp_audio_file, j, path)
           /\ \E r \in download_audio(audio_prompt_value) :
                /\ IF r = "invalid_url" THEN UNCHANGED trace
                   ELSE Log(j, "fetch", r = "ok")
                /\ IF r \in {"write_failed", "ok"}
                   THEN fs' = fs \cup {path} /\ Touch(j, {path})
                   ELSE UNCHANGED <<fs, touched>>
                /\ IF r = "ok"
                   THEN /\ audio_prompt_path' = Set(audio_prompt_path, j, path)
                        /\ Goto(j, "generate")
                   ELSE /\ Return(j, Error("Failed to download audio prompt"))
                        /\ UNCHANGED audio_prompt_path
    /\ UNCHANGED <<config, job_id, output_format, return_base64, wav,
                   output_path, result>>

\* lines 207-217: any other string is taken for base64
ResolveBase64(j) ==
    /\ pc[j] = "resolve"
    /\ job[j].audio_prompt.kind = "str"
    /\ LET audio_prompt_value == strip(job[j].audio_prompt.val)
           path == prompt_file(job_id[j])
       IN  /\ ~startswith_url(audio_prompt_value)
           /\ IF ~b64decode_ok(audio_prompt_value) THEN
                  /\ Log(j, "b64decode", FALSE)
                  /\ Return(j, Error("Invalid base64 audio_prompt"))
                  /\ UNCHANGED <<temp_audio_file, audio_prompt_path, fs, touched>>
              ELSE
                  /\ temp_audio_file' = Set(temp_audio_file, j, path)
                  /\ \E r \in write_file :
                       /\ Log(j, "b64decode", r = "ok")
                       /\ IF r \in {"write_failed", "ok"}
                          THEN fs' = fs \cup {path} /\ Touch(j, {path})
                          ELSE UNCHANGED <<fs, touched>>
                       /\ IF r = "ok"
                          THEN /\ audio_prompt_path' = Set(audio_prompt_path, j, path)
                               /\ Goto(j, "generate")
                          ELSE /\ Return(j, Error("Invalid base64 audio_prompt"))
                               /\ UNCHANGED audio_prompt_path
    /\ UNCHANGED <<config, job_id, output_format, return_base64, wav,
                   output_path, result>>

\* lines 222-248: MODEL.generate, with the reference only when there is one
Generate(j) ==
    /\ pc[j] = "generate"
    /\ \E ok \in BOOLEAN :
         /\ Log(j, IF audio_prompt_path[j] # None THEN "generate_ref" ELSE "generate", ok)
         /\ IF ok
            THEN /\ wav' = Set(wav, j, SAMPLE_RATE)
                 /\ output_path' = Set(output_path, j,
                                       output_file(job_id[j], output_format[j]))
                 /\ Goto(j, "save")
            ELSE /\ Return(j, Error("TTS generation failed"))
                 /\ UNCHANGED <<wav, output_path>>
    /\ UNCHANGED <<config, job_id, output_format, return_base64, temp_audio_file,
                   audio_prompt_path, result, fs, touched>>

\* what a write to a file can do: nothing, a truncated file, the whole file
save_file == {"failed", "partial", "ok"}

\* a faulty variant: the except clause logs the failure and does not return
SaveDone_no_return(j, ok, next) == Goto(j, next)

\* lines 269-271: a failure inside the save block returns the save error
SaveDone(j, ok, next) ==
    IF ok THEN Goto(j, next) ELSE Return(j, Error("Failed to save audio"))

\* lines 251-252: the wav format is written in one step
SaveWav(j) ==
    /\ pc[j] = "save"
    /\ output_format[j] = Chr_wav
    /\ \E r \in save_file :
         /\ Log(j, "save", r = "ok")
         /\ IF r = "failed" THEN UNCHANGED <<fs, touched>>
            ELSE fs' = fs \cup {output_path[j]} /\ Touch(j, {output_path[j]})
         /\ SaveDone(j, r = "ok", "publish")
    /\ UNCHANGED <<config, locals>>

\* lines 255-256: the mp3 format first writes <job_id>_temp.wav
SaveTempWav(j) ==
    /\ pc[j] = "save"
    /\ output_format[j] # Chr_wav
    /\ LET temp_wav == temp_wav_file(job_id[j])
       IN  \E r \in save_file :
             /\ Log(j, "save_temp", r = "ok")
             /\ IF r = "failed" THEN UNCHANGED <<fs, touched>>
                ELSE fs' = fs \cup {temp_wav} /\ Touch(j, {temp_wav})
             /\ SaveDone(j, r = "ok", "transcode")
    /\ UNCHANGED <<config, locals>>

\* lines 259-264: ffmpeg -y -i temp_wav ... output_path, check=True
Transcode(j) ==
    /\ pc[j] = "transcode"
    /\ LET temp_wav == temp_wav_file(job_id[j])
       IN  \E r \in IF temp_wav \in fs THEN save_file ELSE {"failed"} :
             /\ Log(j, "transcode", r = "ok")
             /\ IF r = "failed"
                THEN fs' = fs /\ Touch(j, {temp_wav})
                ELSE fs' = fs \cup {output_path[j]}
                     /\ Touch(j, {temp_wav, output_path[j]})
             /\ SaveDone(j, r = "ok", "rm_temp")
    /\ UNCHANGED <<config, locals>>

\* line 265: os.remove(temp_wav), still inside the save block
RemoveTempWav(j) ==
    /\ pc[j] = "rm_temp"
    /\ LET temp_wav == temp_wav_file(job_id[j])
       IN  \E ok \in IF temp_wav \in fs THEN BOOLEAN ELSE {FALSE} :
             /\ Log(j, "rm_temp", ok)
             /\ fs' = IF ok THEN fs \ {temp_wav} ELSE fs
             /\ Touch(j, {temp_wav})
             /\ SaveDone(j, ok, "publish")
    /\ UNCHANGED <<config, locals>>

\* lines 97-120: upload_to_r2 returns the URL, or None when there is no client,
\* the file cannot be opened or put_object fails
upload_to_r2(j) ==
    IF ~r2_client THEN {None}
    ELSE IF output_path[j] \notin fs THEN {None}
    ELSE {None, public_url(job_id[j], output_format[j])}

\* a faulty variant: a failed upload skips the embedding
after_upload_no_fallback(url) == IF url # None THEN "rm_out_url" ELSE "rm_out"

\* lines 284-291 and 293: what follows the upload
after_upload(url) == IF url # None THEN "rm_out_url" ELSE "embed"

\* lines 276-285: the result record, and the upload when the store is
\* configured and embedding is not forced
Publish(j) ==
    /\ pc[j] = "publish"
    /\ LET base == [ duration    |-> wav[j] \div SAMPLE_RATE,
                     sample_rate |-> SAMPLE_RATE,
                     format      |-> output_format[j] ]
       IN  IF r2_client /\ ~return_base64[j] THEN
               \E url \in upload_to_r2(j) :
                 /\ Log(j, "upload", url # None)
                 /\ Touch(j, {output_path[j]})
                 /\ result' = Set(result, j, IF url # None
                                             THEN base @@ [audio_url |-> url]
                                             ELSE base)
                 /\ Goto(j, after_upload(url))
           ELSE
               /\ result' = Set(result, j, base)
               /\ Goto(j, "embed")
               /\ UNCHANGED <<touched, trace>>
    /\ UNCHANGED <<config, job_id, output_format, return_base64, temp_audio_file,
                   audio_prompt_path, wav, output_path, fs>>

\* lines 294-297: read the output file and embed it as base64; nothing
\* catches a failure of the read
Embed(j) ==
    /\ pc[j] = "embed"
    /\ \E ok \in IF output_path[j] \in fs THEN BOOLEAN ELSE {FALSE} :
         /\ Log(j, "embed", ok)
         /\ Touch(j, {output_path[j]})
         /\ IF ok
            THEN /\ result' = Set(result, j,
                                  result[j] @@ [audio |-> [b64encode |-> output_path[j]]])
                 /\ Goto(j, "rm_out")
            ELSE /\ Raise(j)
                 /\ UNCHANGED result
    /\ UNCHANGED <<config, job_id, output_format, return_base64, temp_audio_file,
                   audio_prompt_path, wav, output_path, fs>>

\* try: os.remove(output_path) except: pass; return result
RemoveOutput(j) ==
    /\ \E ok \in IF output_path[j] \in fs THEN BOOLEAN ELSE {FALSE} :
         /\ Log(j, "rm_out", ok)
         /\ fs' = IF ok THEN fs \ {output_path[j]} ELSE fs
    /\ Touch(j, {output_path[j]})
    /\ Return(j, result[j])
    /\ UNCHANGED <<config, locals>>

\* a faulty variant: the uploaded file is not removed
RemoveOutputAfterUpload_no_remove(j) ==
    /\ pc[j] = "rm_out_url"
    /\ Return(j, result[j])
    /\ UNCHANGED <<config, locals, world>>

\* lines 286-291: after an upload
RemoveOutputAfterUpload(j) ==
    /\ pc[j] = "rm_out_url"
    /\ RemoveOutput(j)

\* lines 299-305: after embedding
RemoveOutputAfterEmbed(j) ==
    /\ pc[j] = "rm_out"
    /\ RemoveOutput(j)

\* a faulty variant: the cleanup looks at audio_prompt_path, which is set
\* only once the file is complete
cleanup_needed_by_prompt_path(j) ==
    /\ audio_prompt_path[j] # None
    /\ audio_prompt_path[j] \in fs

\* line 309: the condition of the cleanup
cleanup_needed(j) ==
    /\ temp_audio_file[j] # None
    /\ temp_audio_file[j] \in fs

\* lines 307-313: the finally block
Finally(j) ==
    /\ pc[j] = "finally"
    /\ IF cleanup_needed(j)
       THEN \E ok \in BOOLEAN :
              /\ Log(j, "rm_prompt", ok)
              /\ fs' = IF ok THEN fs \ {temp_audio_file[j]} ELSE fs
              /\ Touch(j, {temp_audio_file[j]})
       ELSE UNCHANGED world
    /\ pc' = Set(pc, j, "done")
    /\ UNCHANGED <<config, locals, outcome, returned>>

Step(j) ==
    \/ Extract(j)
    \/ ResolveAbsent(j)
    \/ ResolveNonString(j)
    \/ ResolveURL(j)
    \/ ResolveBase64(j)
    \/ Generate(j)
    \/ SaveWav(j)
    \/ SaveTempWav(j)
    \/ Transcode(j)
    \/ RemoveTempWav(j)
    \/ Publish(j)
    \/ Embed(j)
    \/ RemoveOutputAfterUpload(j)
    \/ RemoveOutputAfterEmbed(j)
    \/ Finally(j)

Next == \E j \in Jobs : Step(j)

Spec == Init /\ [][Next]_vars

-----------------------------------------------------------------------------
(* Two invocations of handler running concurrently on one filesystem, as   *)
(* when the runtime dispatches two jobs to the same worker.                *)

Hi == Str(<<"h","i">>)

FirstJobs ==
    { JobOf(Str(<<"x">>), Hi, prompt, <<Absent, Absent>>, Str(Chr_mp3), FALSE) :
        prompt \in {Absent, Str(Chr_http \o <<"a">>)} }

SecondJobs ==
    { JobOf(id, Hi, prompt, <<Absent, Absent>>, Str(Chr_wav), rb) :
        id \in Ids, prompt \in {Absent, Null, Str(<<"Q","U","J","D">>)},
        rb \in BOOLEAN }

InitConc ==
    /\ InitCommon
    /\ \E j1 \in FirstJobs, j2 \in SecondJobs :
          job = [j \in Jobs |-> IF j = 1 THEN j1 ELSE j2]
    /\ pc = [j \in Jobs |-> "start"]

SpecConc == InitConc /\ [][Next]_vars

-----------------------------------------------------------------------------
(* Vocabulary of the properties *)

Events(j) == Range(trace[j])

Did(j, op) == \E e \in Events(j) : e.op = op

Exited(j) == pc[j] = "done"

ReturnedError(j) == outcome[j] = "returned" /\ DOMAIN returned[j] = {"error"}

ReturnedSuccess(j) == outcome[j] = "returned" /\ "error" \notin DOMAIN returned[j]

\* the whole save block went through
Encoded(j) == Ev("save", TRUE) \in Events(j) \/ Ev("rm_temp", TRUE) \in Events(j)

Synthesized(j) == Ev("generate", TRUE) \in Events(j) \/ Ev("generate_ref", TRUE) \in Events(j)

\* handler got through the parameters and entered the try block
EnteredTry(j) == output_format[j] # None

\* the reference resolution is over
Resolved(j) == EnteredTry(j) /\ pc[j] # "resolve"

HasPrefix(s, p) == Len(s) >= Len(p) /\ \A i \in 1..Len(p) : s[i] = p[i]

HasSuffix(s, p) ==
    Len(s) >= Len(p) /\ \A i \in 1..Len(p) : s[Len(s) - Len(p) + i] = p[i]

LooksLikeURL(s) == HasPrefix(s, Chr_http) \/ HasPrefix(s, Chr_https)

\* C1 as claimed: once handler has exited, the prompt file it created is gone.
C1_PromptFileGone ==
    \A j \in Jobs :
        (Exited(j) /\ prompt_file(job_id[j]) \in touched[j])
            => prompt_file(job_id[j]) \notin fs

\* C1 amended: once handler has exited, by return or by exception, the
\* prompt file it created is gone unless the deletion attempted in the finally
\* block itself failed.
C1_PromptFileCleanedUp ==
    \A j \in Jobs :
        (Exited(j) /\ prompt_file(job_id[j]) \in touched[j])
            => \/ prompt_file(job_id[j]) \notin fs
               \/ Ev("rm_prompt", FALSE) \in Events(j)

\* a job that raised while publishing, its prompt file deleted all the same
C1_Witness ==
    \E j \in Jobs :
        /\ Exited(j)
        /\ outcome[j] = "raised"
        /\ prompt_file(job_id[j]) \in touched[j]
        /\ Ev("rm_prompt", TRUE) \in Events(j)
        /\ prompt_file(job_id[j]) \notin fs

\* C2: no invocation of handler ends in an exception.
C2_NoUnhandledException == \A j \in Jobs : outcome[j] # "raised"

\* C3: a record returned after synthesis and encoding succeeded holds exactly
\* one of audio_url and audio, and it holds audio and no error when the upload
\* was attempted and failed.
C3_ExactlyOneAudioField ==
    \A j \in Jobs :
        (outcome[j] = "returned" /\ Synthesized(j) /\ Encoded(j))
            => /\ ("audio_url" \in DOMAIN returned[j]) # ("audio" \in DOMAIN returned[j])
               /\ "error" \notin DOMAIN returned[j]
               /\ Ev("upload", FALSE) \in Events(j) => "audio" \in DOMAIN returned[j]

\* the store is configured, the upload failed, the audio came back embedded
C3_Witness ==
    \E j \in Jobs :
        /\ Exited(j)
        /\ r2_client
        /\ Ev("upload", FALSE) \in Events(j)
        /\ "audio" \in DOMAIN returned[j]
        /\ "audio_url" \notin DOMAIN returned[j]

TextBlank(j) ==
    \/ job[j].text.kind = "absent"
    \/ /\ job[j].text.kind = "str"
       /\ \A i \in DOMAIN job[j].text.val : job[j].text.val[i] \in Whitespace

\* C4: a job whose text is missing, empty or all whitespace makes no external
\* call and touches no file, and what it returns holds the key error alone.
C4_BlankTextNoSideEffects ==
    \A j \in Jobs :
        TextBlank(j)
            => /\ trace[j] = <<>>
               /\ touched[j] = {}
               /\ temp_audio_file[j] = None
               /\ pc[j] \in {"idle", "start", "done"}
               /\ Exited(j) => ReturnedError(j)

\* a whitespace-only text, refused with the model loaded
C4_Witness ==
    \E j \in Jobs :
        /\ Exited(j)
        /\ MODEL
        /\ job[j].text = Str(<<" ">>)
        /\ job[j].audio_prompt.kind = "str"
        /\ returned[j] = Error("Missing required parameter: text")

\* C5: two invocations with different job identifiers touch disjoint sets of
\* paths.
C5_DisjointPaths ==
    \A j1 \in Jobs, j2 \in Jobs :
        (/\ j1 # j2
         /\ job_id[j1] # None
         /\ job_id[j2] # None
         /\ job_id[j1] # job_id[j2])
            => touched[j1] \cap touched[j2] = {}

\* the position of an external call in the pipeline
Rank(op) ==
    CASE op \in {"fetch", "b64decode"}      -> 1
      [] op \in {"generate", "generate_ref"} -> 2
      [] op \in {"save", "save_temp"}        -> 3
      [] op = "transcode"                    -> 4
      [] op = "rm_temp"                      -> 5
      [] op = "upload"                       -> 6
      [] op = "embed"                        -> 7
      [] op = "rm_out"                       -> 8
      [] op = "rm_prompt"                    -> 9

\* the error message of the stage a call belongs to
MessageOf(op) ==
    CASE op = "fetch"                        -> "Failed to download audio prompt"
      [] op = "b64decode"                    -> "Invalid base64 audio_prompt"
      [] op \in {"generate", "generate_ref"} -> "TTS generation failed"
      [] op \in {"save", "save_temp", "transcode", "rm_temp"}
                                             -> "Failed to save audio"

FailingOps ==
    {"fetch", "b64decode", "generate", "generate_ref", "save", "save_temp",
     "transcode", "rm_temp"}

\* C6: the calls of a job follow the order resolution, synthesis, encoding,
\* publishing, each made at most once; a stage is entered only after the
\* stages before it succeeded; after the first failing stage nothing but the
\* cleanup of the prompt file follows, and the error returned is that stage's.
C6_StagesInOrder ==
    \A j \in Jobs :
        /\ \A i \in DOMAIN trace[j], k \in DOMAIN trace[j] :
               i < k => Rank(trace[j][i].op) < Rank(trace[j][k].op)
        /\ \A i \in DOMAIN trace[j] :
               (trace[j][i].op \in FailingOps /\ ~trace[j][i].ok)
                   => /\ \A k \in DOMAIN trace[j] :
                             k > i => trace[j][k].op = "rm_prompt"
                      /\ outcome[j] = "returned"
                      /\ returned[j] = Error(MessageOf(trace[j][i].op))
        /\ Did(j, "generate_ref")
               => Ev("fetch", TRUE) \in Events(j) \/ Ev("b64decode", TRUE) \in Events(j)
        /\ (Did(j, "save") \/ Did(j, "save_temp")) => Synthesized(j)
        /\ (Did(j, "upload") \/ Did(j, "embed") \/ Did(j, "rm_out")) => Encoded(j)

\* a reference was resolved, speech synthesized, and the transcoder failed
C6_Witness ==
    \E j \in Jobs :
        /\ Exited(j)
        /\ Ev("generate_ref", TRUE) \in Events(j)
        /\ Ev("transcode", FALSE) \in Events(j)
        /\ returned[j] = Error("Failed to save audio")

\* C7 as claimed: the prefix of the value as supplied decides between the
\* fetch and the base64 decode.
C7_SuppliedPrefixDecides ==
    \A j \in Jobs :
        Resolved(j) =>
            LET prompt == job[j].audio_prompt
            IN  /\ (prompt.kind = "str" /\ LooksLikeURL(prompt.val))
                       => Did(j, "fetch") /\ ~Did(j, "b64decode")
                /\ (prompt.kind = "str" /\ prompt.val # <<>> /\ ~LooksLikeURL(prompt.val))
                       => Did(j, "b64decode") /\ ~Did(j, "fetch")
                /\ prompt.kind = "absent"
                       => ~Did(j, "fetch") /\ ~Did(j, "b64decode") /\ ~Did(j, "generate_ref")

\* C7 amended: the prefix of the value with its surrounding whitespace
\* removed decides: a fetch and no decode when that begins with http:// or
\* https://, a decode and no fetch for every other string; neither, and a
\* synthesis without reference, when no value is supplied.
C7_TrimmedPrefixDecides ==
    \A j \in Jobs :
        Resolved(j) =>
            LET prompt == job[j].audio_prompt
            IN  /\ (prompt.kind = "str" /\ LooksLikeURL(strip(prompt.val)))
                       => Did(j, "fetch") /\ ~Did(j, "b64decode")
                /\ (prompt.kind = "str" /\ ~LooksLikeURL(strip(prompt.val)))
                       => Did(j, "b64decode") /\ ~Did(j, "fetch")
                /\ prompt.kind = "absent"
                       => ~Did(j, "fetch") /\ ~Did(j, "b64decode") /\ ~Did(j, "generate_ref")

\* a value that begins with a blank and then https:// was fetched
C7_Witness ==
    \E j \in Jobs :
        /\ Resolved(j)
        /\ job[j].audio_prompt = Str(<<" ">> \o Chr_https \o <<"a">>)
        /\ Did(j, "fetch")

RequestedFormat(j) == job[j].output_format

\* every use of the format: the variable, the extension of the output file,
\* the encoding path and the format field of the result
UsesFormat(j, fmt) ==
    /\ output_format[j] = fmt
    /\ output_path[j] # None => HasSuffix(output_path[j], <<".">> \o fmt)
    /\ Did(j, "save") => fmt = Chr_wav
    /\ Did(j, "save_temp") => fmt = Chr_mp3
    /\ "format" \in DOMAIN returned[j] => returned[j].format = fmt

\* C8 as claimed: a requested format other than "wav" and "mp3" is replaced
\* by "wav", and the format used is always one of the two.
C8_UnknownFormatIsWav ==
    \A j \in Jobs :
        EnteredTry(j) =>
            /\ \E fmt \in {Chr_wav, Chr_mp3} : UsesFormat(j, fmt)
            /\ RequestedFormat(j).val \notin {Chr_wav, Chr_mp3} => UsesFormat(j, Chr_wav)

\* C8 amended: a requested format whose lower-case form is neither "wav" nor
\* "mp3" is replaced by "wav", and the format used is always one of the two.
C8_UnknownLowerFormatIsWav ==
    \A j \in Jobs :
        EnteredTry(j) =>
            /\ \E fmt \in {Chr_wav, Chr_mp3} : UsesFormat(j, fmt)
            /\ lower(RequestedFormat(j).val) \notin {Chr_wav, Chr_mp3}
                   => UsesFormat(j, Chr_wav)

\* "ogg" was asked for and a wav came back
C8_Witness ==
    \E j \in Jobs :
        /\ Exited(j)
        /\ RequestedFormat(j) = Str(<<"o","g","g">>)
        /\ ReturnedSuccess(j)
        /\ returned[j].format = Chr_wav
        /\ Did(j, "save")

\* C9: a job that returns a success record has attempted to delete its output
\* file, whichever way the audio was delivered; when that deletion failed the
\* job still returns, and returns the record built before the deletion.
C9_OutputDeletionAttempted ==
    \A j \in Jobs :
        /\ ReturnedSuccess(j)
               => /\ Did(j, "rm_out")
                  /\ returned[j] = result[j]
                  /\ {"duration", "sample_rate", "format"} \subseteq DOMAIN returned[j]
        /\ Ev("rm_out", FALSE) \in Events(j)
               => ReturnedSuccess(j) /\ returned[j] = result[j]

\* the upload went through, the deletion failed, the URL came back
C9_Witness ==
    \E j \in Jobs :
        /\ Exited(j)
        /\ Ev("upload", TRUE) \in Events(j)
        /\ Ev("rm_out", FALSE) \in Events(j)
        /\ output_path[j] \in fs
        /\ "audio_url" \in DOMAIN returned[j]

\* C10: once handler has exited, the intermediate file it had written is
\* gone, whether the transcoder succeeded or failed, and a job that returns an
\* error leaves neither its output file nor its intermediate file behind.
C10_NoIntermediateLeft ==
    \A j \in Jobs :
        Exited(j) =>
            /\ Ev("save_temp", TRUE) \in Events(j)
                   => temp_wav_file(job_id[j]) \notin fs
            /\ ReturnedError(j)
                   => fs \cap {temp_wav_file(job_id[j]),
                               output_file(job_id[j], Chr_wav),
                               output_file(job_id[j], Chr_mp3)} = {}

====
